---- MODULE Spec2Model ----
(***************************************************************************)
(* Model of atomic_reactor/plugins/exit_store_metadata.py:                 *)
(* StoreMetadataPlugin, the exit plugin that assembles the annotation and  *)
(* label records of a build and pushes them to the pipeline run.           *)
(*                                                                         *)
(* Python values are tagged records: None, bool, int, str, list, dict and  *)
(* an Exception instance (the failure marker the plugin runner stores for  *)
(* a failed plugin).  A dict value is a sequence of <<key, value>> pairs,  *)
(* in insertion order, its keys hashable values no two of which are equal. *)
(* The annotation record run() builds is a function from key values to     *)
(* values, since annotations.update(config_map) adds keys of any hashable  *)
(* type.  The records the plugin reads by str key (the result stores, the  *)
(* annotation and label sources, the exported image entries) and the label *)
(* record are functions from strings to values.  Strings are ASCII.        *)
(***************************************************************************)
EXTENDS Integers, Sequences, FiniteSets, TLC

VARIABLES
    workflow,       \* the DockerBuildWorkflow the plugin was constructed with
    source_build,   \* self.source_build, set by __init__
    pc,             \* position of run()
    session,        \* TRUE once get_openshift_session returned
    annotations,    \* local `annotations` of run()
    labels,         \* local `labels` of run()
    calls,          \* remote calls made on the session, in order, with outcome
    error,          \* the exception run() raised, "" when none
    result          \* the value run() returned, NoResult when none

vars == <<workflow, source_build, pc, session, annotations, labels, calls, error, result>>

-----------------------------------------------------------------------------
(* Python values *)

PyNone == [t |-> "none"]
PyBool(b) == [t |-> "bool", b |-> b]
PyInt(n) == [t |-> "int", n |-> n]
PyStr(s) == [t |-> "str", s |-> s]
PyList(elems) == [t |-> "list", elems |-> elems]
PyDict(pairs) == [t |-> "dict", pairs |-> pairs]
PyExc == [t |-> "exc"]

IsStr(v) == v.t = "str"

\* bool(value)
Truthy(v) ==
    CASE v.t = "none" -> FALSE
      [] v.t = "bool" -> v.b
      [] v.t = "int" -> v.n # 0
      [] v.t = "str" -> v.s # ""
      [] v.t = "list" -> v.elems # <<>>
      [] v.t = "dict" -> v.pairs # <<>>
      [] OTHER -> TRUE

\* hash(value) succeeds
Hashable(v) == v.t \notin {"list", "dict"}

IsNumber(v) == v.t \in {"int", "bool"}
Number(v) == IF v.t = "int" THEN v.n ELSE IF v.b THEN 1 ELSE 0

\* a == b on hashable values: True == 1 and False == 0
PyEqual(a, b) == IF IsNumber(a) /\ IsNumber(b) THEN Number(a) = Number(b) ELSE a = b

\* key in d and d[key] on a dict value
HasKey(d, key) == \E i \in DOMAIN d.pairs : PyEqual(d.pairs[i][1], key)
Item(d, key) == d.pairs[CHOOSE i \in DOMAIN d.pairs : PyEqual(d.pairs[i][1], key)][2]

\* the characters of a str, as one-character strs
Chars(s) == [i \in 1..Len(s) |-> SubSeq(s, i, i)]
HasChar(s, c) == \E i \in 1..Len(s) : SubSeq(s, i, i) = c

\* the body of a JSON string: json.dumps escapes the quote, the backslash and
\* the control characters
RECURSIVE JsonEscape(_)
JsonEscape(s) ==
    IF Len(s) = 0 THEN ""
    ELSE LET c == SubSeq(s, 1, 1)
             e == CASE c = "\"" -> "\\\""
                    [] c = "\\" -> "\\\\"
                    [] c = "\n" -> "\\n"
                    [] c = "\t" -> "\\t"
                    [] c = "\r" -> "\\r"
                    [] c = "\f" -> "\\f"
                    [] OTHER -> c
         IN e \o JsonEscape(SubSeq(s, 2, Len(s)))

\* the text of a dict key in JSON: a str as it is, an int, a bool and None as
\* the text of their JSON value
JsonKey(k) ==
    CASE k.t = "str" -> JsonEscape(k.s)
      [] k.t = "int" -> ToString(k.n)
      [] k.t = "bool" -> IF k.b THEN "true" ELSE "false"
      [] k.t = "none" -> "null"

\* json.dumps(value) with the default separators, as the text it returns
RECURSIVE JsonText(_)
RECURSIVE JsonItems(_)
RECURSIVE JsonPairs(_)
JsonText(v) ==
    CASE v.t = "none" -> "null"
      [] v.t = "bool" -> IF v.b THEN "true" ELSE "false"
      [] v.t = "int" -> ToString(v.n)
      [] v.t = "str" -> "\"" \o JsonEscape(v.s) \o "\""
      [] v.t = "list" -> "[" \o JsonItems(v.elems) \o "]"
      [] v.t = "dict" -> "{" \o JsonPairs(v.pairs) \o "}"
JsonItems(elems) ==
    IF elems = <<>> THEN ""
    ELSE IF Len(elems) = 1 THEN JsonText(elems[1])
    ELSE JsonText(elems[1]) \o ", " \o JsonItems(Tail(elems))
JsonPairs(pairs) ==
    IF pairs = <<>> THEN ""
    ELSE LET one == "\"" \o JsonKey(pairs[1][1]) \o "\": " \o JsonText(pairs[1][2])
         IN IF Len(pairs) = 1 THEN one ELSE one \o ", " \o JsonPairs(Tail(pairs))

json_dumps(v) == PyStr(JsonText(v))

\* repr of a str between the quotes `quote`: the backslash, that quote and the
\* control characters are escaped
RECURSIVE ReprEscape(_, _)
ReprEscape(s, quote) ==
    IF Len(s) = 0 THEN ""
    ELSE LET c == SubSeq(s, 1, 1)
             e == CASE c = "\\" -> "\\\\"
                    [] c = quote -> "\\" \o quote
                    [] c = "\n" -> "\\n"
                    [] c = "\t" -> "\\t"
                    [] c = "\r" -> "\\r"
                    [] c = "\f" -> "\\x0c"
                    [] OTHER -> c
         IN e \o ReprEscape(SubSeq(s, 2, Len(s)), quote)

\* repr(str): double quotes when the str holds a single quote and no double one
ReprStr(s) ==
    LET quote == IF HasChar(s, "'") /\ ~HasChar(s, "\"") THEN "\"" ELSE "'"
    IN quote \o ReprEscape(s, quote) \o quote

\* repr(value)
RECURSIVE ReprText(_)
RECURSIVE ReprItems(_)
RECURSIVE ReprPairs(_)
ReprText(v) ==
    CASE v.t = "none" -> "None"
      [] v.t = "bool" -> IF v.b THEN "True" ELSE "False"
      [] v.t = "int" -> ToString(v.n)
      [] v.t = "str" -> ReprStr(v.s)
      [] v.t = "list" -> "[" \o ReprItems(v.elems) \o "]"
      [] v.t = "dict" -> "{" \o ReprPairs(v.pairs) \o "}"
ReprItems(elems) ==
    IF elems = <<>> THEN ""
    ELSE IF Len(elems) = 1 THEN ReprText(elems[1])
    ELSE ReprText(elems[1]) \o ", " \o ReprItems(Tail(elems))
ReprPairs(pairs) ==
    IF pairs = <<>> THEN ""
    ELSE LET one == ReprText(pairs[1][1]) \o ": " \o ReprText(pairs[1][2])
         IN IF Len(pairs) = 1 THEN one ELSE one \o ", " \o ReprPairs(Tail(pairs))

\* str(value)
str(v) == IF v.t = "str" THEN v ELSE PyStr(ReprText(v))

\* the characters in code-point order: tab, newline, form feed, return and the
\* printable ASCII characters (the grave accent cannot be written in a string)
Alphabet ==
    "\t\n\f\r !\"#$%&'()*+,-./0123456789:;<=>?@ABCDEFGHIJKLMNOPQRSTUVWXYZ[\\]^_abcdefghijklmnopqrstuvwxyz{|}~"

Ord(c) == CHOOSE i \in 1..Len(Alphabet) : SubSeq(Alphabet, i, i) = c

\* a < b on strs
RECURSIVE StrLess(_, _)
StrLess(a, b) ==
    IF Len(b) = 0 THEN FALSE
    ELSE IF Len(a) = 0 THEN TRUE
    ELSE IF SubSeq(a, 1, 1) = SubSeq(b, 1, 1)
        THEN StrLess(SubSeq(a, 2, Len(a)), SubSeq(b, 2, Len(b)))
    ELSE Ord(SubSeq(a, 1, 1)) < Ord(SubSeq(b, 1, 1))

\* dict.update(updates) on dicts held as functions
DictUpdate(d, updates) ==
    [k \in DOMAIN d \cup DOMAIN updates |-> IF k \in DOMAIN updates THEN updates[k] ELSE d[k]]

EmptyDict == [k \in {} |-> PyNone]

\* d[key] = value
DictSet(d, key, value) == DictUpdate(d, [k \in {key} |-> value])

\* dict.get(key, default)
DictGet(d, key, default) == IF key \in DOMAIN d THEN d[key] ELSE default

\* a dict written with str keys, as a record keyed by values
StrKeyed(d) == [key \in {PyStr(k) : k \in DOMAIN d} |-> d[key.s]]

\* d[key] = value on a record keyed by values: an equal key keeps its entry
SetItem(d, key, value) ==
    LET same == {k \in DOMAIN d : PyEqual(k, key)}
    IN IF same = {} THEN DictSet(d, key, value)
       ELSE [d EXCEPT ![CHOOSE k \in same : TRUE] = value]

-----------------------------------------------------------------------------
(* Keys and constants imported by the plugin *)

PLUGIN_FETCH_SOURCES_KEY == "fetch_sources"
PLUGIN_KOJI_UPLOAD_PLUGIN_KEY == "koji_upload"
PLUGIN_VERIFY_MEDIA_KEY == "verify_media"
PLUGIN_RESOLVE_REMOTE_SOURCE == "resolve_remote_source"
SCRATCH_FROM == "scratch"

\* ManifestDigest.content_type, in iteration order
content_type == <<"v1", "v2", "v2_list", "oci", "oci_index">>

\* ImageName.to_str(registry=..., tag=...)
to_str(image, registry, tag) ==
    (IF registry THEN image.registry \o "/" ELSE "")
        \o image.repo
        \o (IF tag THEN ":" \o image.tag ELSE "")

\* TagConf.images
tag_conf_images(w) ==
    w.tag_conf.primary_images \o w.tag_conf.unique_images \o w.tag_conf.floating_images

-----------------------------------------------------------------------------
(* ResultAccessor: get_result and the three store accessors *)

get_result(r) == IF r.t = "exc" THEN PyStr("") ELSE r

get_pre_result(w, key) == get_result(DictGet(w.prebuild_results, key, PyStr("")))

get_post_result(w, key) == get_result(DictGet(w.postbuild_results, key, PyStr("")))

get_exit_result(w, key) == get_result(DictGet(w.exit_results, key, PyStr("")))

\* __init__: self.source_build
init_source_build(w) == PLUGIN_FETCH_SOURCES_KEY \in DOMAIN w.prebuild_results

get_config_map(w) ==
    LET found == get_post_result(w, PLUGIN_KOJI_UPLOAD_PLUGIN_KEY)
    IN IF ~Truthy(found) THEN PyDict(<<>>) ELSE found

-----------------------------------------------------------------------------
(* RepositoryCatalog *)

\* get_manifest_digests(image, ...) is the registry's answer, an input
get_digests(w) ==
    LET images == tag_conf_images(w)
        keys == {to_str(images[i], TRUE, TRUE) : i \in
                    {j \in DOMAIN images :
                        DOMAIN w.manifest_digests[to_str(images[j], TRUE, TRUE)] # {}}}
    IN [k \in keys |-> w.manifest_digests[k]]

ImageStrs(images) == [i \in DOMAIN images |-> PyStr(to_str(images[i], TRUE, TRUE))]

get_repositories(w) ==
    PyDict(<< <<PyStr("primary"), PyList(ImageStrs(w.tag_conf.primary_images))>>,
              <<PyStr("unique"), PyList(ImageStrs(w.tag_conf.unique_images))>>,
              <<PyStr("floating"), PyList(ImageStrs(w.tag_conf.floating_images))>> >>)

\* the records one image appends, for the content types from position `from` on
RECURSIVE ImagePullspecs(_, _, _)
ImagePullspecs(image, digest, from) ==
    IF from > Len(content_type) THEN <<>>
    ELSE LET digest_version == content_type[from]
             rest == ImagePullspecs(image, digest, from + 1)
         IN IF digest_version \notin DOMAIN digest THEN rest
            ELSE << [registry |-> image.registry,
                     repository |-> to_str(image, FALSE, FALSE),
                     tag |-> image.tag,
                     digest |-> digest[digest_version],
                     version |-> digest_version] >> \o rest

RECURSIVE PullspecsOf(_, _)
PullspecsOf(images, digests) ==
    IF images = <<>> THEN <<>>
    ELSE LET image == Head(images)
             image_str == to_str(image, TRUE, TRUE)
         IN (IF image_str \in DOMAIN digests
                 THEN ImagePullspecs(image, digests[image_str], 1)
                 ELSE <<>>)
            \o PullspecsOf(Tail(images), digests)

get_pullspecs(w, digests) == PullspecsOf(tag_conf_images(w), digests)

PullspecValue(p) ==
    PyDict(<< <<PyStr("registry"), PyStr(p.registry)>>,
              <<PyStr("repository"), PyStr(p.repository)>>,
              <<PyStr("tag"), PyStr(p.tag)>>,
              <<PyStr("digest"), p.digest>>,
              <<PyStr("version"), PyStr(p.version)>> >>)

PullspecsValue(ps) == PyList([i \in DOMAIN ps |-> PullspecValue(ps[i])])

get_plugin_metadata(w) ==
    PyDict(<< <<PyStr("errors"), w.plugins_errors>>,
              <<PyStr("timestamps"), w.plugins_timestamps>>,
              <<PyStr("durations"), w.plugins_durations>> >>)

\* fs_watcher.get_usage_data() may raise; any Exception gives {}
get_filesystem_metadata(w) ==
    IF w.fs_watcher.raises THEN PyDict(<<>>) ELSE w.fs_watcher.data

-----------------------------------------------------------------------------
(* LabelAssembler *)

\* _update_labels: the labels after the call
update_labels(labels_in, updates) ==
    IF DOMAIN updates # {}
        THEN DictUpdate(labels_in, [k \in DOMAIN updates |-> str(updates[k])])
        ELSE labels_in

make_labels(w) ==
    LET merged == update_labels(update_labels(EmptyDict, w.labels), w.build_result.labels)
    IN IF "sources_for_koji_build_id" \in DOMAIN merged
           THEN DictSet(merged, "sources_for_koji_build_id",
                        str(merged["sources_for_koji_build_id"]))
           ELSE merged

-----------------------------------------------------------------------------
(* AnnotationAssembler *)

\* mutant: the whitelist is attached whenever it is configured, empty or not
set_koji_task_annotations_whitelist_NotNone(w, annos) ==
    LET whitelist == DictGet(w.conf_koji, "task_annotations_whitelist", PyNone)
    IN IF whitelist.t # "none"
           THEN DictSet(annos, PyStr("koji_task_annotations_whitelist"),
                        json_dumps(whitelist))
           ELSE annos

\* set_koji_task_annotations_whitelist: the annotations after the call
set_koji_task_annotations_whitelist(w, annos) ==
    LET whitelist == DictGet(w.conf_koji, "task_annotations_whitelist", PyNone)
    IN IF Truthy(whitelist)
           THEN DictSet(annos, PyStr("koji_task_annotations_whitelist"),
                        json_dumps(whitelist))
           ELSE annos

\* _update_annotations: the annotations after the call
update_annotations(annos, updates) ==
    IF DOMAIN updates # {}
        THEN DictUpdate(annos, StrKeyed([k \in DOMAIN updates |-> json_dumps(updates[k])]))
        ELSE annos

apply_build_result_annotations(w, annos) ==
    update_annotations(annos, w.build_result.annotations)

apply_plugin_annotations(w, annos) == update_annotations(annos, w.annotations)

\* remote_source["name"], remote_source["url"] succeed on a dict holding both;
\* a dict missing one raises KeyError, any other entry TypeError
EntryOk(remote_source) ==
    /\ remote_source.t = "dict"
    /\ HasKey(remote_source, PyStr("name"))
    /\ HasKey(remote_source, PyStr("url"))

\* the list comprehension of apply_remote_source_annotations:
\* [raised, value], raised being "" or the exception's class
remote_sources_list(remote_sources) ==
    CASE remote_sources.t = "list" ->
            IF \A i \in DOMAIN remote_sources.elems : EntryOk(remote_sources.elems[i])
                THEN [raised |-> "",
                      value |-> [i \in DOMAIN remote_sources.elems |->
                                   PyDict(<< <<PyStr("name"), Item(remote_sources.elems[i], PyStr("name"))>>,
                                             <<PyStr("url"), Item(remote_sources.elems[i], PyStr("url"))>> >>)]]
                ELSE LET first == CHOOSE i \in DOMAIN remote_sources.elems :
                                 /\ ~EntryOk(remote_sources.elems[i])
                                 /\ \A j \in 1..(i - 1) : EntryOk(remote_sources.elems[j])
                     IN [raised |-> IF remote_sources.elems[first].t = "dict"
                                        THEN "KeyError" ELSE "TypeError",
                         value |-> <<>>]
      [] remote_sources.t = "str" ->
            \* iterating a str yields one-character strs, which take no str index
            [raised |-> IF remote_sources.s = "" THEN "" ELSE "TypeError", value |-> <<>>]
      [] remote_sources.t = "dict" ->
            \* iterating a dict yields its keys, which take no str index
            [raised |-> IF remote_sources.pairs = <<>> THEN "" ELSE "TypeError",
             value |-> <<>>]
      [] OTHER -> [raised |-> "TypeError", value |-> <<>>]

apply_remote_source_annotations(w, annos) ==
    LET found == remote_sources_list(get_pre_result(w, PLUGIN_RESOLVE_REMOTE_SOURCE))
    IN IF found.raised \in {"TypeError", "KeyError"} THEN annos
       ELSE IF found.value = <<>> THEN annos
       ELSE DictSet(annos, PyStr("remote_sources"), json_dumps(PyList(found.value)))

\* os.path.basename: what follows the last "/"
RECURSIVE basename(_)
basename(path) ==
    IF \E i \in 1..Len(path) : SubSeq(path, i, i) = "/"
        THEN LET i == CHOOSE j \in 1..Len(path) : SubSeq(path, j, j) = "/"
             IN basename(SubSeq(path, i + 1, Len(path)))
        ELSE path

\* a < b where defined: on two strs and on two numbers
PyLess(a, b) ==
    IF IsStr(a) /\ IsStr(b) THEN StrLess(a.s, b.s)
    ELSE IsNumber(a) /\ IsNumber(b) /\ Number(a) < Number(b)

\* list(set(elems)) up to order: of equal elements the first is kept
Distinct(elems) ==
    SelectSeq([i \in DOMAIN elems |-> [at |-> i, v |-> elems[i]]],
              LAMBDA e : \A j \in 1..(e.at - 1) : ~PyEqual(elems[j], e.v))

\* sorted(list(set(elems))) raises TypeError on an unhashable element and on
\* two elements that "<" does not order
SortedSetRaises(elems) ==
    \/ \E i \in DOMAIN elems : ~Hashable(elems[i])
    \/ /\ Len(Distinct(elems)) > 1
       /\ ~(\A i \in DOMAIN elems : IsStr(elems[i]))
       /\ ~(\A i \in DOMAIN elems : IsNumber(elems[i]))

\* sorted(list(set(elems)))
SortedSet(elems) ==
    LET d == Distinct(elems)
    IN [i \in DOMAIN d |->
           d[CHOOSE j \in DOMAIN d :
                 Cardinality({k \in DOMAIN d : PyLess(d[k].v, d[j].v)}) = i - 1].v]

\* what iterating a value yields: [raised, elems]
Iterate(v) ==
    CASE v.t = "list" -> [raised |-> "", elems |-> v.elems]
      [] v.t = "str" ->
            [raised |-> "", elems |-> [i \in DOMAIN Chars(v.s) |-> PyStr(Chars(v.s)[i])]]
      [] v.t = "dict" ->
            [raised |-> "", elems |-> [i \in DOMAIN v.pairs |-> v.pairs[i][1]]]
      [] OTHER -> [raised |-> "TypeError", elems |-> <<>>]

\* parent_images_strings[key] = value on a dict held as pairs
RECURSIVE PairsSet(_, _, _)
PairsSet(pairs, key, value) ==
    IF pairs = <<>> THEN << <<key, value>> >>
    ELSE IF pairs[1][1] = key THEN << <<key, value>> >> \o Tail(pairs)
    ELSE <<pairs[1]>> \o PairsSet(Tail(pairs), key, value)

\* run(), the full-build locals: commit_id, base image, parent images, dockerfile.
\* open(df_path) raises OSError on a file it cannot read; only AttributeError is caught
full_build_locals(w) ==
    LET commit_id == IF w.source.has_commit_id THEN w.source.commit_id ELSE PyStr("")
        base_image == w.dockerfile_images.original_base_image
        scratch == w.dockerfile_images.base_from_scratch
        resolved == base_image.t # "none" /\ ~scratch
        parents == IF scratch
                       THEN PairsSet(w.parent_images, PyStr(SCRATCH_FROM), PyStr(SCRATCH_FROM))
                       ELSE w.parent_images
    IN [raised |-> IF w.df.state = "unreadable" THEN "OSError" ELSE "",
        commit_id |-> commit_id,
        base_image_name |-> IF resolved THEN base_image ELSE PyStr(""),
        base_image_id |-> IF resolved /\ ~w.base_image_inspect.raises
                              THEN DictGet(w.base_image_inspect.data, "Id", PyStr(""))
                              ELSE PyStr(""),
        parent_images_strings |-> PyDict(parents),
        dockerfile_contents |-> IF w.df.state = "readable"
                                    THEN PyStr(w.df.contents) ELSE PyStr("")]

\* value[key] for a key that is a str: [raised, value]
Subscript(v, key) ==
    IF v.t # "dict" THEN [raised |-> "TypeError", value |-> PyNone]
    ELSE IF ~HasKey(v, key) THEN [raised |-> "KeyError", value |-> PyNone]
    ELSE [raised |-> "", value |-> Item(v, key)]

\* koji_source_manifest['config']['digest']: [raised, value]
manifest_config_digest(manifest) ==
    LET config == Subscript(manifest, PyStr("config"))
    IN IF config.raised # "" THEN config ELSE Subscript(config.value, PyStr("digest"))

\* run(), the image-id, dockerfile, ... keys: [raised, annos]
build_kind_annotations(w, sb, locals, annos) ==
    IF sb
        THEN IF Truthy(w.koji_source_manifest)
                 THEN LET d == manifest_config_digest(w.koji_source_manifest)
                      IN [raised |-> d.raised,
                          annos |-> DictSet(annos, PyStr("image-id"), d.value)]
                 ELSE [raised |-> "", annos |-> DictSet(annos, PyStr("image-id"), PyStr(""))]
        ELSE [raised |-> "",
              annos |-> DictUpdate(annos, StrKeyed(
                  [k \in {"dockerfile", "commit_id", "base-image-id", "base-image-name",
                          "image-id", "parent_images"} |->
                      CASE k = "dockerfile" -> locals.dockerfile_contents
                        [] k = "commit_id" -> locals.commit_id
                        [] k = "base-image-id" -> locals.base_image_id
                        [] k = "base-image-name" -> locals.base_image_name
                        [] k = "image-id" ->
                              IF Truthy(w.image_id) THEN w.image_id ELSE PyStr("")
                        [] k = "parent_images" ->
                              json_dumps(locals.parent_images_strings)]))]

\* run(), the media-types key: [raised, annos]
media_types_annotations(w, annos) ==
    LET stored == DictGet(w.exit_results, PLUGIN_VERIFY_MEDIA_KEY, PyNone)
        media_results == IF stored.t = "exc" THEN PyNone ELSE stored
        added == IF Truthy(media_results) THEN Iterate(media_results)
                                          ELSE [raised |-> "", elems |-> <<>>]
        media_types == added.elems
    IN IF added.raised # "" THEN [raised |-> added.raised, annos |-> annos]
       ELSE IF media_types = <<>> THEN [raised |-> "", annos |-> annos]
       ELSE IF SortedSetRaises(media_types) THEN [raised |-> "TypeError", annos |-> annos]
       ELSE [raised |-> "",
             annos |-> DictSet(annos, PyStr("media-types"),
                               json_dumps(PyList(SortedSet(media_types))))]

\* run(), the tar_metadata key for the exported image `info`: [raised, annos];
\* os.path.basename raises TypeError on a path that is no str
tar_metadata_of(info, annos) ==
    LET tar_path == DictGet(info, "path", PyNone)
        tar_size == DictGet(info, "size", PyNone)
        tar_md5sum == DictGet(info, "md5sum", PyNone)
        tar_sha256sum == DictGet(info, "sha256sum", PyNone)
    IN IF tar_size.t # "none" /\ tar_md5sum.t # "none" /\ tar_sha256sum.t # "none"
            /\ tar_path.t # "none"
           THEN IF ~IsStr(tar_path) THEN [raised |-> "TypeError", annos |-> annos]
                ELSE [raised |-> "",
                      annos |-> DictSet(annos, PyStr("tar_metadata"),
                          json_dumps(PyDict(<< <<PyStr("size"), tar_size>>,
                                               <<PyStr("md5sum"), tar_md5sum>>,
                                               <<PyStr("sha256sum"), tar_sha256sum>>,
                                               <<PyStr("filename"),
                                                 PyStr(basename(tar_path.s))>> >>)))]
           ELSE [raised |-> "", annos |-> annos]

\* mutant: the first exported image is described, not the last
tar_metadata_annotations_First(w, annos) ==
    LET seq == w.exported_image_sequence
    IN tar_metadata_of(IF Len(seq) > 0 THEN seq[1] ELSE EmptyDict, annos)

\* run(), the tar_metadata key: [raised, annos]
tar_metadata_annotations(w, annos) ==
    LET seq == w.exported_image_sequence
    IN tar_metadata_of(IF Len(seq) > 0 THEN seq[Len(seq)] ELSE EmptyDict, annos)

\* run() from `wf_data = ...` through apply_remote_source_annotations: [raised, annos]
base_annotations(w, sb) ==
    LET locals == IF sb THEN [raised |-> ""] ELSE full_build_locals(w)
        first == StrKeyed(
                 [k \in {"repositories", "digests", "plugins-metadata", "filesystem"} |->
                    CASE k = "repositories" -> json_dumps(get_repositories(w))
                      [] k = "digests" ->
                            json_dumps(PullspecsValue(get_pullspecs(w, get_digests(w))))
                      [] k = "plugins-metadata" -> json_dumps(get_plugin_metadata(w))
                      [] k = "filesystem" -> json_dumps(get_filesystem_metadata(w))])
        kind == build_kind_annotations(w, sb, locals, first)
        media == media_types_annotations(w, kind.annos)
        tar == tar_metadata_annotations(w, media.annos)
    IN IF locals.raised # "" THEN [raised |-> locals.raised, annos |-> EmptyDict]
       ELSE IF kind.raised # "" THEN [raised |-> kind.raised, annos |-> EmptyDict]
       ELSE IF media.raised # "" THEN [raised |-> media.raised, annos |-> EmptyDict]
       ELSE IF tar.raised # "" THEN [raised |-> tar.raised, annos |-> EmptyDict]
       ELSE [raised |-> "", annos |-> apply_remote_source_annotations(w, tar.annos)]

\* the key and value dict.update takes from one element of a sequence:
\* [raised, key, value].  The element must iterate to two items, the first of
\* them hashable
update_item(element) ==
    LET items == Iterate(element)
    IN IF items.raised # "" THEN [raised |-> "TypeError", key |-> PyNone, value |-> PyNone]
       ELSE IF Len(items.elems) # 2
           THEN [raised |-> "ValueError", key |-> PyNone, value |-> PyNone]
       ELSE IF ~Hashable(items.elems[1])
           THEN [raised |-> "TypeError", key |-> PyNone, value |-> PyNone]
       ELSE [raised |-> "", key |-> items.elems[1], value |-> items.elems[2]]

\* dict.update(elements) for a sequence of key/value elements: [raised, annos]
RECURSIVE update_from_items(_, _)
update_from_items(annos, elements) ==
    IF elements = <<>> THEN [raised |-> "", annos |-> annos]
    ELSE LET item == update_item(Head(elements))
         IN IF item.raised # "" THEN [raised |-> item.raised, annos |-> annos]
            ELSE update_from_items(SetItem(annos, item.key, item.value), Tail(elements))

\* annotations.update(config_map): [raised, annos].  A dict gives its items; any
\* other value is iterated for key/value elements
dict_update(annos, config_map) ==
    IF config_map.t = "dict"
        THEN update_from_items(annos,
                 [i \in DOMAIN config_map.pairs |->
                     PyList(<<config_map.pairs[i][1], config_map.pairs[i][2]>>)])
    ELSE IF Iterate(config_map).raised # "" THEN [raised |-> "TypeError", annos |-> annos]
    ELSE update_from_items(annos, Iterate(config_map).elems)

\* mutant: the plugin annotations are applied after the build-result annotations
merged_annotations_PluginLast(w, annos) ==
    LET updated == dict_update(annos, get_config_map(w))
    IN IF updated.raised # "" THEN updated
       ELSE [raised |-> "",
             annos |-> set_koji_task_annotations_whitelist(w,
                           apply_plugin_annotations(w,
                               apply_build_result_annotations(w, updated.annos)))]

\* run() from annotations.update(self.get_config_map()) through the whitelist:
\* [raised, annos]
merged_annotations(w, annos) ==
    LET updated == dict_update(annos, get_config_map(w))
    IN IF updated.raised # "" THEN updated
       ELSE [raised |-> "",
             annos |-> set_koji_task_annotations_whitelist(w,
                           apply_build_result_annotations(w,
                               apply_plugin_annotations(w, updated.annos)))]

-----------------------------------------------------------------------------
(* The workflows the plugin is run on *)

\* longest exported_image_sequence
MaxExported == 2

Img1 == [registry |-> "registry.example.com", repo |-> "ns/app", tag |-> "1.0-1"]
Img2 == [registry |-> "registry.example.com", repo |-> "ns/app", tag |-> "latest"]
Img3 == [registry |-> "registry.example.com", repo |-> "ns/app", tag |-> "build-42"]
ImageStrings == {to_str(i, TRUE, TRUE) : i \in {Img1, Img2, Img3}}

\* what get_manifest_digests may answer for one image
DigestAnswers ==
    { EmptyDict,
      [v \in {"v2"} |-> PyStr("sha256:aa")],
      [v \in {"v1", "v2"} |-> PyStr("sha256:" \o v)],
      [v \in {"v2"} |-> PyStr("")],
      [v \in {"v2", "oci"} |-> IF v = "v2" THEN PyNone ELSE PyStr("sha256:cc")] }

\* no entry under the key
Absent == [t |-> "absent"]
StoreOf(key, choice) ==
    IF choice = Absent THEN EmptyDict ELSE [k \in {key} |-> choice]

RemoteSourceResults ==
    { Absent, PyExc, PyList(<<>>), PyInt(5),
      PyList(<< PyDict(<< <<PyStr("name"), PyStr("name-1")>>, <<PyStr("ref"), PyStr("ref-1")>>,
                          <<PyStr("url"), PyStr("url-1")>> >>) >>),
      PyList(<< PyDict(<< <<PyStr("name"), PyStr("name-1")>>, <<PyStr("url"), PyStr("url-1")>> >>),
                PyDict(<< <<PyStr("name"), PyStr("name-2")>> >>) >>),
      PyList(<< PyStr("name") >>) }

FetchSourcesResults ==
    { Absent, PyExc, PyDict(<< <<PyStr("image_sources_dir"), PyStr("/tmp/sources")>> >>) }

KojiUploadResults ==
    { Absent, PyExc, PyInt(1),
      PyStr("abc"), PyList(<< PyStr("k7"), PyList(<< PyStr("image-id"), PyNone >>) >>),
      PyList(<< PyList(<< PyInt(1), PyStr("v") >>), PyList(<< PyNone, PyStr("n") >>),
                PyList(<< PyBool(TRUE), PyStr("w") >>), PyList(<< PyBool(FALSE), PyInt(0) >>) >>),
      PyDict(<< <<PyInt(2), PyStr("two")>>, <<PyStr("k"), PyStr("from-config-map")>> >>),
      PyDict(<< <<PyStr("metadata_fragment"), PyStr("configmap/build-1-md")>> >>),
      PyDict(<< <<PyStr("k"), PyStr("from-config-map")>>,
                <<PyStr("image-id"), PyStr("from-config-map")>> >>),
      PyDict(<< <<PyStr("k"), PyInt(7)>> >>),
      PyDict(<< <<PyStr("koji_task_annotations_whitelist"), PyDict(<< <<PyStr("a"), PyInt(1)>> >>)>> >>) }

VerifyMediaResults ==
    { Absent, PyExc, PyList(<<>>),
      PyList(<< PyStr("application/vnd.docker.distribution.manifest.v2+json"),
                PyStr("application/json"),
                PyStr("application/vnd.docker.distribution.manifest.list.v2+json"),
                PyStr("application/vnd.docker.distribution.manifest.v2+json") >>),
      PyList(<< PyStr("b"), PyStr("a"), PyStr("a"), PyStr("B"), PyStr("ab") >>),
      PyList(<< PyStr("v2"), PyInt(1) >>) }

SourceManifests ==
    { PyNone, PyDict(<<>>), PyStr("manifest.json"),
      PyDict(<< <<PyStr("config"), PyList(<< PyStr("digest") >>)>> >>),
      PyDict(<< <<PyStr("config"), PyDict(<< <<PyStr("digest"), PyStr("sha256:cafebabe")>> >>)>> >>),
      PyDict(<< <<PyStr("config"), PyDict(<< <<PyStr("size"), PyInt(10)>> >>)>> >>),
      PyDict(<< <<PyStr("layers"), PyList(<<>>)>> >>),
      PyDict(<< <<PyStr("config"), PyDict(<< <<PyStr("digest"), PyInt(12)>> >>)>> >>) }

TarComplete ==
    [k \in {"path", "size", "md5sum", "sha256sum"} |->
        CASE k = "path" -> PyStr("/tmp/build/image.tar")
          [] k = "size" -> PyInt(4096)
          [] k = "md5sum" -> PyStr("md5-1")
          [] k = "sha256sum" -> PyStr("sha-1")]

\* an export with every field, with one field missing, with one field None, or
\* with a path that is no str
TarEntries ==
    {TarComplete}
        \cup {[k \in DOMAIN TarComplete \ {gone} |-> TarComplete[k]] : gone \in DOMAIN TarComplete}
        \cup {[TarComplete EXCEPT ![none] = PyNone] : none \in {"size", "path"}}
        \cup {[TarComplete EXCEPT !["path"] = PyInt(5)]}

ExportedSequences ==
    UNION {[1..n -> TarEntries] : n \in 0..MaxExported}

AnnotationSources ==
    { EmptyDict,
      [k \in {"k"} |-> PyStr("v")],
      [k \in {"k"} |-> PyList(<< PyStr("say \"hi\""), PyStr("line\nbreak\tend") >>)],
      [k \in {"k", "repositories"} |-> PyList(<< PyStr("x"), PyInt(2) >>)],
      [k \in {"koji_task_annotations_whitelist", "image-id"} |-> PyStr("mine")] }

BuildResultAnnotations ==
    { EmptyDict,
      [k \in {"k"} |-> PyDict(<< <<PyStr("from"), PyStr("build-result")>>,
                                 <<PyInt(3), PyNone>>, <<PyBool(FALSE), PyInt(-1)>> >>)],
      [k \in {"image-id", "repositories"} |-> PyNone],
      [k \in {"koji_task_annotations_whitelist", "k"} |-> PyStr("br")] }

LabelSources ==
    { EmptyDict,
      [k \in {"l"} |-> PyStr("v")],
      [k \in {"l", "sources_for_koji_build_id"} |-> PyInt(12345)],
      [k \in {"m"} |-> PyNone],
      [k \in {"l", "n"} |->
          IF k = "l" THEN PyList(<< PyStr("it's"), PyStr("a\\b"), PyStr("both ' \"") >>)
                     ELSE PyDict(<< <<PyStr("a"), PyInt(1)>>, <<PyInt(2), PyBool(TRUE)>>,
                                    <<PyNone, PyStr("n")>> >>)] }

Whitelists == { EmptyDict,
                [k \in {"task_annotations_whitelist"} |-> PyList(<<>>)],
                [k \in {"task_annotations_whitelist"} |-> PyList(<< PyStr("k") >>)] }

DefaultWorkflow ==
    [ user_params |-> [k \in {"pipeline_run_name", "namespace"} |->
                          IF k = "namespace" THEN PyStr("ns") ELSE PyStr("build-1")],
      prebuild_results |-> EmptyDict,
      postbuild_results |-> EmptyDict,
      exit_results |-> EmptyDict,
      tag_conf |-> [primary_images |-> <<Img1>>, unique_images |-> <<>>,
                    floating_images |-> <<>>],
      manifest_digests |-> [i \in ImageStrings |-> [v \in {"v2"} |-> PyStr("sha256:aa")]],
      fs_watcher |-> [raises |-> FALSE, data |-> PyDict(<< <<PyStr("mb_total"), PyInt(100)>>,
                                                           <<PyStr("mb_used"), PyInt(10)>> >>)],
      source |-> [has_commit_id |-> TRUE, commit_id |-> PyStr("abc123")],
      dockerfile_images |-> [original_base_image |-> PyStr("fedora:36"),
                             base_from_scratch |-> FALSE],
      base_image_inspect |-> [raises |-> FALSE, data |-> [k \in {"Id"} |-> PyStr("sha256:base")]],
      parent_images |-> << <<PyStr("fedora:36"), PyStr("registry.example.com/fedora@sha256:bb")>> >>,
      df |-> [state |-> "readable", contents |-> "FROM fedora:36"],
      koji_source_manifest |-> PyNone,
      image_id |-> PyStr("sha256:img"),
      exported_image_sequence |-> <<>>,
      annotations |-> EmptyDict,
      labels |-> EmptyDict,
      build_result |-> [annotations |-> EmptyDict, labels |-> EmptyDict],
      conf_koji |-> EmptyDict,
      plugins_errors |-> PyDict(<<>>),
      plugins_timestamps |-> PyDict(<< <<PyStr("fetch_sources"), PyStr("2022-01-01T00:00:00")>> >>),
      plugins_durations |-> PyDict(<< <<PyStr("fetch_sources"), PyInt(3)>> >>) ]

\* the stage-result stores, the run identity and the source manifest vary
StageWorkflows ==
    { [DefaultWorkflow EXCEPT
          !.user_params = IF named THEN @ ELSE [k \in {"namespace"} |-> PyStr("ns")],
          !.prebuild_results =
              [k \in (IF fetch = Absent THEN {} ELSE {PLUGIN_FETCH_SOURCES_KEY})
                     \cup (IF remote = Absent THEN {} ELSE {PLUGIN_RESOLVE_REMOTE_SOURCE})
                 |-> IF k = PLUGIN_FETCH_SOURCES_KEY THEN fetch ELSE remote],
          !.postbuild_results = StoreOf(PLUGIN_KOJI_UPLOAD_PLUGIN_KEY, koji),
          !.exit_results = StoreOf(PLUGIN_VERIFY_MEDIA_KEY, media),
          !.koji_source_manifest = manifest] :
        named \in BOOLEAN, fetch \in FetchSourcesResults, remote \in RemoteSourceResults,
        koji \in KojiUploadResults, media \in VerifyMediaResults,
        manifest \in SourceManifests }

\* the inputs of a full build vary
BuildWorkflows ==
    { [DefaultWorkflow EXCEPT
          !.source = [has_commit_id |-> commit, commit_id |-> PyStr("abc123")],
          !.dockerfile_images = base[1],
          !.base_image_inspect = base[2],
          !.df = [state |-> df, contents |-> "FROM fedora:36"],
          !.image_id = image_id,
          !.fs_watcher = [raises |-> fs, data |-> @.data]] :
        commit \in BOOLEAN,
        base \in { <<[original_base_image |-> PyNone, base_from_scratch |-> FALSE],
                     DefaultWorkflow.base_image_inspect>>,
                   <<[original_base_image |-> PyStr("scratch"), base_from_scratch |-> TRUE],
                     DefaultWorkflow.base_image_inspect>>,
                   <<DefaultWorkflow.dockerfile_images, DefaultWorkflow.base_image_inspect>>,
                   <<DefaultWorkflow.dockerfile_images,
                     [raises |-> FALSE, data |-> EmptyDict]>>,
                   <<DefaultWorkflow.dockerfile_images,
                     [raises |-> TRUE, data |-> EmptyDict]>> },
        df \in {"readable", "unavailable", "unreadable"},
        image_id \in {PyNone, PyStr(""), PyStr("sha256:img")},
        fs \in BOOLEAN }

\* the exported images vary, in a full and in a source build
TarWorkflows ==
    { [DefaultWorkflow EXCEPT
          !.exported_image_sequence = seq,
          !.prebuild_results = StoreOf(PLUGIN_FETCH_SOURCES_KEY, fetch)] :
        seq \in ExportedSequences, fetch \in {Absent, PyDict(<<>>)} }

\* the sources of the merge steps vary
MergeWorkflows ==
    { [DefaultWorkflow EXCEPT
          !.postbuild_results = StoreOf(PLUGIN_KOJI_UPLOAD_PLUGIN_KEY, koji),
          !.annotations = plugin,
          !.build_result = [annotations |-> built, labels |-> EmptyDict],
          !.conf_koji = whitelist] :
        koji \in KojiUploadResults, plugin \in AnnotationSources,
        built \in BuildResultAnnotations, whitelist \in Whitelists }

\* the label sources vary
LabelWorkflows ==
    { [DefaultWorkflow EXCEPT
          !.labels = mine,
          !.build_result = [annotations |-> EmptyDict, labels |-> built]] :
        mine \in LabelSources, built \in LabelSources }

\* the tagged images and the registry's digests vary
DigestWorkflows ==
    { [DefaultWorkflow EXCEPT
          !.tag_conf = [primary_images |-> primary, unique_images |-> unique,
                        floating_images |-> floating],
          !.manifest_digests = digests] :
        primary \in {<<>>, <<Img1>>, <<Img1, Img2>>},
        unique \in {<<>>, <<Img3>>},
        floating \in {<<>>, <<Img2>>},
        digests \in [ImageStrings -> DigestAnswers] }

Workflows ==
    StageWorkflows \cup BuildWorkflows \cup TarWorkflows \cup MergeWorkflows
        \cup LabelWorkflows \cup DigestWorkflows

-----------------------------------------------------------------------------
(* StoreMetadataPlugin(workflow).run() *)

NoResult == [returned |-> FALSE]

Init ==
    /\ workflow \in Workflows
    /\ source_build = init_source_build(workflow)
    /\ pc = "start"
    /\ session = FALSE
    /\ annotations = EmptyDict
    /\ labels = EmptyDict
    /\ calls = <<>>
    /\ error = ""
    /\ result = NoResult

\* the exception leaves run()
Raise(exception) ==
    /\ error' = exception
    /\ pc' = "raised"

\* mutant: the session is obtained before the run name is looked up
RunIdentity_SessionFirst ==
    /\ pc = "start"
    /\ session' = TRUE
    /\ IF "pipeline_run_name" \notin DOMAIN workflow.user_params
           THEN Raise("KeyError")
           ELSE pc' = "assemble" /\ UNCHANGED error
    /\ UNCHANGED <<workflow, source_build, annotations, labels, calls, result>>

\* pipeline_run_name = user_params['pipeline_run_name']; get_openshift_session(...)
RunIdentity ==
    /\ pc = "start"
    /\ IF "pipeline_run_name" \notin DOMAIN workflow.user_params
           THEN /\ Raise("KeyError")
                /\ UNCHANGED session
           ELSE /\ session' = TRUE
                /\ pc' = "assemble"
                /\ UNCHANGED error
    /\ UNCHANGED <<workflow, source_build, annotations, labels, calls, result>>

\* the annotations up to apply_remote_source_annotations
RunAssemble ==
    /\ pc = "assemble"
    /\ LET built == base_annotations(workflow, source_build)
       IN IF built.raised # ""
              THEN /\ Raise(built.raised)
                   /\ UNCHANGED annotations
              ELSE /\ annotations' = built.annos
                   /\ pc' = "merge"
                   /\ UNCHANGED error
    /\ UNCHANGED <<workflow, source_build, session, labels, calls, result>>

\* the configuration map, the plugin and build-result annotations, the whitelist
RunMerge ==
    /\ pc = "merge"
    /\ LET merged == merged_annotations(workflow, annotations)
       IN IF merged.raised # ""
              THEN /\ Raise(merged.raised)
                   /\ UNCHANGED annotations
              ELSE /\ annotations' = merged.annos
                   /\ pc' = "update_annotations"
                   /\ UNCHANGED error
    /\ UNCHANGED <<workflow, source_build, session, labels, calls, result>>

RemoteCall(op, payload, ok) ==
    [op |-> op, name |-> workflow.user_params["pipeline_run_name"],
     payload |-> payload, ok |-> ok]

\* mutant: a failed annotations update is logged and the run goes on
RunUpdateAnnotations_Swallow ==
    /\ pc = "update_annotations"
    /\ \E ok \in BOOLEAN :
          calls' = Append(calls, RemoteCall("update_annotations_on_build", annotations, ok))
    /\ pc' = "make_labels"
    /\ UNCHANGED <<workflow, source_build, session, annotations, labels, error, result>>

\* osbs.update_annotations_on_build(pipeline_run_name, annotations)
RunUpdateAnnotations ==
    /\ pc = "update_annotations"
    /\ \E ok \in BOOLEAN :
          /\ calls' = Append(calls, RemoteCall("update_annotations_on_build", annotations, ok))
          /\ IF ok THEN pc' = "make_labels" /\ UNCHANGED error
                   ELSE Raise("OsbsResponseException")
    /\ UNCHANGED <<workflow, source_build, session, annotations, labels, result>>

\* mutant: the labels are pushed whether or not there are any
RunMakeLabels_AlwaysPush ==
    /\ pc = "make_labels"
    /\ labels' = make_labels(workflow)
    /\ pc' = "update_labels"
    /\ UNCHANGED <<workflow, source_build, session, annotations, calls, error, result>>

\* labels = self.make_labels(); if labels: ...
RunMakeLabels ==
    /\ pc = "make_labels"
    /\ labels' = make_labels(workflow)
    /\ pc' = IF DOMAIN labels' # {} THEN "update_labels" ELSE "return"
    /\ UNCHANGED <<workflow, source_build, session, annotations, calls, error, result>>

\* osbs.update_labels_on_build(pipeline_run_name, labels)
RunUpdateLabels ==
    /\ pc = "update_labels"
    /\ \E ok \in BOOLEAN :
          /\ calls' = Append(calls, RemoteCall("update_labels_on_build", labels, ok))
          /\ IF ok THEN pc' = "return" /\ UNCHANGED error
                   ELSE Raise("OsbsResponseException")
    /\ UNCHANGED <<workflow, source_build, session, annotations, labels, result>>

\* return {"annotations": annotations, "labels": labels}
RunReturn ==
    /\ pc = "return"
    /\ result' = [returned |-> TRUE, annotations |-> annotations, labels |-> labels]
    /\ pc' = "done"
    /\ UNCHANGED <<workflow, source_build, session, annotations, labels, calls, error>>

Next ==
    \/ RunIdentity
    \/ RunAssemble
    \/ RunMerge
    \/ RunUpdateAnnotations
    \/ RunMakeLabels
    \/ RunUpdateLabels
    \/ RunReturn

Spec == Init /\ [][Next]_vars

-----------------------------------------------------------------------------
(* What a run publishes, as a function of the workflow alone: the exception  *)
(* raised before the first remote call ("" when none), the annotation record *)
(* handed to update_annotations_on_build and the label record.               *)

Published(w) ==
    LET based == base_annotations(w, init_source_build(w))
        merged == merged_annotations(w, based.annos)
    IN IF "pipeline_run_name" \notin DOMAIN w.user_params
           THEN [raised |-> "KeyError", annotations |-> EmptyDict, labels |-> EmptyDict]
       ELSE IF based.raised # ""
           THEN [raised |-> based.raised, annotations |-> EmptyDict, labels |-> EmptyDict]
       ELSE IF merged.raised # ""
           THEN [raised |-> merged.raised, annotations |-> EmptyDict, labels |-> EmptyDict]
       ELSE [raised |-> "", annotations |-> merged.annos, labels |-> make_labels(w)]

\* the workflow with no entry for `key` in the store named `store`
WithoutResult(w, store, key) ==
    LET drop(d) == [k \in DOMAIN d \ {key} |-> d[k]]
    IN CASE store = "pre" -> [w EXCEPT !.prebuild_results = drop(@)]
         [] store = "post" -> [w EXCEPT !.postbuild_results = drop(@)]
         [] store = "exit" -> [w EXCEPT !.exit_results = drop(@)]

StoreNamed(w, store) ==
    CASE store = "pre" -> w.prebuild_results
      [] store = "post" -> w.postbuild_results
      [] store = "exit" -> w.exit_results

CallsOf(op) == {i \in DOMAIN calls : calls[i].op = op}
AnnotationCalls == CallsOf("update_annotations_on_build")
LabelCalls == CallsOf("update_labels_on_build")
RunNamed == "pipeline_run_name" \in DOMAIN workflow.user_params

-----------------------------------------------------------------------------
(* C1: when user_params holds no pipeline_run_name, run() raises the        *)
(* KeyError and nothing remote has happened: no session was obtained, no    *)
(* update call was made, and nothing is returned.                           *)
C1_NoIdentityNoRemote ==
    (~RunNamed /\ pc # "start") =>
        /\ pc = "raised"
        /\ error = "KeyError"
        /\ ~session
        /\ calls = <<>>
        /\ result = NoResult

C1_Witness == ~RunNamed /\ pc = "raised"

(* C2: update_labels_on_build is called at most once, and only after an     *)
(* update_annotations_on_build call on the same run name returned; when the *)
(* annotations call fails, run() raises that failure, builds and pushes no  *)
(* labels and returns nothing.                                              *)
C2_LabelsAfterAnnotations ==
    /\ Cardinality(LabelCalls) <= 1
    /\ \A i \in LabelCalls :
          \E j \in AnnotationCalls :
              j < i /\ calls[j].ok /\ calls[j].name = calls[i].name
    /\ (\E j \in AnnotationCalls : ~calls[j].ok) =>
          /\ pc = "raised"
          /\ error = "OsbsResponseException"
          /\ labels = EmptyDict
          /\ LabelCalls = {}
          /\ result = NoResult

C2_Witness ==
    /\ pc = "done"
    /\ LabelCalls # {}
    /\ workflow.labels # EmptyDict

(* C3: when neither the workflow labels nor the build-result labels hold an *)
(* entry, update_labels_on_build is never called, the run does not fail     *)
(* once the annotations were pushed, and run() returns the annotations as   *)
(* pushed together with the empty label record.                             *)
C3_EmptyLabelsSkipped ==
    (workflow.labels = EmptyDict /\ workflow.build_result.labels = EmptyDict) =>
        /\ LabelCalls = {}
        /\ pc # "update_labels"
        /\ (\E j \in AnnotationCalls : calls[j].ok) => pc # "raised"
        /\ pc = "done" =>
              /\ Len(calls) = 1
              /\ result = [returned |-> TRUE,
                           annotations |-> calls[1].payload,
                           labels |-> EmptyDict]

C3_Witness ==
    /\ pc = "done"
    /\ workflow.labels = EmptyDict
    /\ workflow.build_result.labels = EmptyDict
    /\ result.labels = EmptyDict

(* C4: a failure marker stored under a stage key publishes what the same    *)
(* workflow without that key publishes: the same annotation record and the  *)
(* same label record.                                                       *)
C4_FailedLikeAbsent ==
    pc = "done" =>
        \A store \in {"pre", "post", "exit"} :
            \A key \in DOMAIN StoreNamed(workflow, store) :
                StoreNamed(workflow, store)[key] = PyExc =>
                    LET other == Published(WithoutResult(workflow, store, key))
                    IN /\ other.raised = ""
                       /\ result.annotations = other.annotations
                       /\ result.labels = other.labels

(* C5: every value of the annotation record and of the label record handed  *)
(* to a remote call is a str.                                               *)
C5_OnlyStringsPublished ==
    \A i \in DOMAIN calls :
        \A k \in DOMAIN calls[i].payload : IsStr(calls[i].payload[k])

\* the sources of the merge steps, and the record before them
ConfigMapRecord == dict_update(EmptyDict, get_config_map(workflow)).annos
ConfigMapKeys == DOMAIN ConfigMapRecord
PluginKeys == {PyStr(k) : k \in DOMAIN workflow.annotations}
BuildResultKeys == {PyStr(k) : k \in DOMAIN workflow.build_result.annotations}
BaseRecord == base_annotations(workflow, source_build).annos
Whitelist == DictGet(workflow.conf_koji, "task_annotations_whitelist", PyNone)
WhitelistKey == PyStr("koji_task_annotations_whitelist")

(* C6 as claimed: a key of the configuration map that the plugin            *)
(* annotations also hold (and the build-result annotations do not) is       *)
(* published with the JSON text of the plugin's value, and a key of the     *)
(* plugin annotations that the build-result annotations also hold with the  *)
(* JSON text of the build result's value.                                   *)
C6_Claimed ==
    \A i \in AnnotationCalls :
        /\ \A k \in (ConfigMapKeys \cap PluginKeys) \ BuildResultKeys :
              calls[i].payload[k] = json_dumps(workflow.annotations[k.s])
        /\ \A k \in PluginKeys \cap BuildResultKeys :
              calls[i].payload[k] = json_dumps(workflow.build_result.annotations[k.s])

(* C6 as amended: among the base record, the configuration map, the plugin  *)
(* annotations and the build-result annotations the last source holding a   *)
(* key decides its published value (JSON text for the last two sources),    *)
(* for every key but koji_task_annotations_whitelist under a non-empty      *)
(* configured whitelist.                                                    *)
C6_MergePrecedence ==
    \A i \in AnnotationCalls :
        \A k \in DOMAIN calls[i].payload :
            (k = WhitelistKey /\ Truthy(Whitelist)) \/
            calls[i].payload[k] =
                IF k \in BuildResultKeys
                    THEN json_dumps(workflow.build_result.annotations[k.s])
                ELSE IF k \in PluginKeys THEN json_dumps(workflow.annotations[k.s])
                ELSE IF k \in ConfigMapKeys THEN ConfigMapRecord[k]
                ELSE BaseRecord[k]

C6_Witness ==
    /\ AnnotationCalls # {}
    /\ \E k \in ConfigMapKeys \cap PluginKeys \cap BuildResultKeys :
          workflow.annotations[k.s] # workflow.build_result.annotations[k.s]
    /\ \E k \in (DOMAIN BaseRecord \cap PluginKeys) \ BuildResultKeys : TRUE

(* C7 as claimed: every key of the build-result annotations is published    *)
(* with the JSON text of the build result's value.                          *)
C7_Claimed ==
    \A i \in AnnotationCalls :
        \A k \in BuildResultKeys :
            calls[i].payload[k] = json_dumps(workflow.build_result.annotations[k.s])

(* C7 as amended: every key of the build-result annotations is published    *)
(* with the JSON text of the build result's value, except                   *)
(* koji_task_annotations_whitelist when a non-empty whitelist is            *)
(* configured, which is published with the JSON text of the whitelist.      *)
C7_BuildResultLastButWhitelist ==
    \A i \in AnnotationCalls :
        \A k \in BuildResultKeys :
            calls[i].payload[k] =
                IF k = WhitelistKey /\ Truthy(Whitelist)
                    THEN json_dumps(Whitelist)
                    ELSE json_dumps(workflow.build_result.annotations[k.s])

C7_Witness ==
    /\ AnnotationCalls # {}
    /\ WhitelistKey \in BuildResultKeys
    /\ Truthy(Whitelist)

(* C8: run() raises only for a missing pipeline_run_name or a failed remote *)
(* update.                                                                  *)
C8_OnlyIdentityAndRemoteRaise ==
    pc = "raised" =>
        \/ ~RunNamed /\ error = "KeyError"
        \/ calls # <<>> /\ ~calls[Len(calls)].ok /\ error = "OsbsResponseException"

\* the records C9 describes: a tagged image of the digest map times a content
\* type the image's digests hold with a truthy value, in that order
RECURSIVE TruthyPullspecs(_, _)
TruthyPullspecs(images, digests) ==
    IF images = <<>> THEN <<>>
    ELSE LET image == Head(images)
             image_str == to_str(image, TRUE, TRUE)
             versions == IF image_str \notin DOMAIN digests THEN <<>>
                         ELSE SelectSeq(content_type,
                                  LAMBDA v : /\ v \in DOMAIN digests[image_str]
                                             /\ Truthy(digests[image_str][v]))
         IN [i \in DOMAIN versions |->
                [registry |-> image.registry,
                 repository |-> to_str(image, FALSE, FALSE),
                 tag |-> image.tag,
                 digest |-> digests[image_str][versions[i]],
                 version |-> versions[i]]]
            \o TruthyPullspecs(Tail(images), digests)

(* C9: the digests annotation lists one pull spec per tagged image of the   *)
(* digest map and content type whose digest is truthy, in image order and   *)
(* then content-type order, and nothing else.                               *)
C9_PullspecsOnlyTruthy ==
    pc = "merge" =>
        annotations[PyStr("digests")] =
            json_dumps(PullspecsValue(
                TruthyPullspecs(tag_conf_images(workflow), get_digests(workflow))))

\* info.get(field) is not None for each of the four fields
TarEntryComplete(info) ==
    \A field \in {"path", "size", "md5sum", "sha256sum"} :
        field \in DOMAIN info /\ info[field] # PyNone

(* C10: after the base assembly the record holds tar_metadata exactly when  *)
(* exported_image_sequence is non-empty and its last entry holds a value    *)
(* for each of path, size, md5sum and sha256sum.                            *)
C10_TarMetadataAllOrNothing ==
    pc = "merge" =>
        (PyStr("tar_metadata") \in DOMAIN annotations <=>
            /\ workflow.exported_image_sequence # <<>>
            /\ TarEntryComplete(workflow.exported_image_sequence[
                                    Len(workflow.exported_image_sequence)]))

C10_Witness ==
    /\ pc = "merge"
    /\ Len(workflow.exported_image_sequence) >= 2
    /\ TarEntryComplete(workflow.exported_image_sequence[1])
    /\ ~TarEntryComplete(workflow.exported_image_sequence[
                             Len(workflow.exported_image_sequence)])
    /\ PyStr("tar_metadata") \notin DOMAIN annotations

====
